---------------------------- MODULE Spec2Model ----------------------------
(***************************************************************************)
(* Border removal of src/app.py: the Line Scorer _find_best_border_line    *)
(* and the Border Remover remove_border.                                   *)
(*                                                                         *)
(* Images are described, not stored pixel by pixel: a panel is a white or  *)
(* grey background with one rectangular frame drawn in an ink intensity;   *)
(* Gray gives the intensity of each pixel.  The OpenCV calls are modelled  *)
(* by what they do on such a panel, whose foreground is the frame or the   *)
(* whole panel and so has a rectangle as its one outer contour.  The       *)
(* skeletonization primitive is the environment's: `thin' says which       *)
(* subset of the hollow band it keeps (all of it for the dummy).           *)
(*                                                                         *)
(* The combined score continuity_score * (1 + progress / total_span) is    *)
(* computed as Python computes it, in IEEE 754 double precision: the       *)
(* quotient, the sum and the product are each rounded to 53 significant    *)
(* bits, to nearest, ties to even.  A double is kept as the integer        *)
(* value * 2^52, written in five digits of base 2^13, most significant     *)
(* first; the first digit is not reduced.  search_zone_ratio is a fraction *)
(* <<num, den>> with a power of two as denominator, so that h * ratio is   *)
(* exact in double precision and int() is the floor of the quotient.       *)
(***************************************************************************)
EXTENDS Integers, Sequences, FiniteSets, TLC

VARIABLES
    panel_image,        \* the argument of remove_border
    search_zone_ratio,  \* the argument, <<num, den>>
    padding,            \* the argument
    thin,               \* what the skeletonization primitive keeps
    pc,                 \* position in remove_border
    rect,               \* x, y, w, h of cv.boundingRect (line 103)
    roi_mask,           \* skeleton[y:y+h, x:x+w] (line 113), or the scorer's argument
    best,               \* best_top_y, best_bottom_y, best_left_x, best_right_x
    call,               \* the frame of _find_best_border_line
    result,             \* what remove_border returned
    origin_ok,          \* history: the first image of the chain was at least 10 x 10
    crops               \* history: how many crops led to panel_image

vars == <<panel_image, search_zone_ratio, padding, thin, pc, rect, roi_mask,
          best, call, result, origin_ok, crops>>

----------------------------------------------------------------------------
(* Bounds of the model *)

\* explicit pixel masks handed to the scorer have at most this many cells
MaxMaskCells == 6

\* the rows of the masks that are given by the number of pixels of each row
MaxBarLines == 9

\* the largest of the panel dimensions enumerated upwards from the size guard
MaxDim == 31

\* the largest inward padding tried
MaxPadding == 12

----------------------------------------------------------------------------
(* Program constants *)

MinInputDim == 30
pad_size == 15
BinaryThreshold == 240
erosion_iterations == 5
MinCropDim == 10
DefaultPadding == 5
DefaultRatio == <<1, 4>>
White == 255

Abs(n) == IF n < 0 THEN -n ELSE n

Max(a, b) == IF a > b THEN a ELSE b

Min(a, b) == IF a < b THEN a ELSE b

----------------------------------------------------------------------------
(* Python range objects with step 1 or -1 *)

Range(start, stop, step) == [start |-> start, stop |-> stop, step |-> step]

\* i is an element of the range
InRange(r, i) ==
    IF r.step > 0 THEN r.start <= i /\ i < r.stop
                  ELSE r.stop < i /\ i <= r.start

\* len(range)
RangeLen(r) ==
    IF r.step > 0 THEN Max(0, r.stop - r.start) ELSE Max(0, r.start - r.stop)

\* the elements of the range
Candidates(r) == {i \in Min(r.start, r.stop) .. Max(r.start, r.stop) : InRange(r, i)}

\* the last element of a non-empty range
LastOf(r) == r.start + r.step * (RangeLen(r) - 1)

----------------------------------------------------------------------------
(* Masks *)

\* filled_mask - erode(filled_mask, 3x3, iterations): inside the h x w filled
\* rectangle, what an erosion by `iterations' pixels on each side removes
HollowContour(h, w, r, c) ==
    /\ r \in 0 .. h - 1
    /\ c \in 0 .. w - 1
    /\ ~ ( /\ erosion_iterations <= r /\ r <= h - 1 - erosion_iterations
           /\ erosion_iterations <= c /\ c <= w - 1 - erosion_iterations )

\* the outline of the rectangle inset by d pixels from each side
OnRing(h, w, d, r, c) ==
    /\ d <= r /\ r <= h - 1 - d
    /\ d <= c /\ c <= w - 1 - d
    /\ (r = d \/ r = h - 1 - d \/ c = d \/ c = w - 1 - d)

\* thinning(hollow_contour): the dummy returns its argument; the primitive
\* keeps a one pixel wide subset of the band
Thinning(t, h, w, r, c) ==
    /\ HollowContour(h, w, r, c)
    /\ CASE t.kind = "dummy"  -> TRUE
         [] t.kind = "centre" -> OnRing(h, w, t.d, r, c)
         [] t.kind = "sparse" -> <<r % 2, c % 2>> \in t.on
         [] OTHER -> FALSE

\* roi_mask[r, c] != 0: a mask given by its pixels, a mask whose row r holds
\* on[r + 1] pixels, or a skeleton
Pixel(m, r, c) ==
    CASE m.kind = "pixels" -> <<r, c>> \in m.on
      [] m.kind = "bars"   -> c < m.on[r + 1]
      [] OTHER             -> Thinning(m, m.h, m.w, r, c)

\* number of lines along the scanned axis: rows for axis 1, columns for axis 0
Lines(m, axis) == IF axis = 1 THEN m.h ELSE m.w

\* numpy's index check of roi_mask[i, :] / roi_mask[:, i]: a negative index
\* counts from the end, anything else outside raises IndexError
IndexOK(m, axis, i) == -Lines(m, axis) <= i /\ i < Lines(m, axis)

NormIndex(m, axis, i) == IF i < 0 THEN i + Lines(m, axis) ELSE i

\* np.count_nonzero(roi_mask[i, :]) for axis 1, np.count_nonzero(roi_mask[:, i]) for axis 0
CountNonzero(m, axis, i) ==
    LET k == NormIndex(m, axis, i) IN
    IF axis = 1 THEN Cardinality({c \in 0 .. m.w - 1 : Pixel(m, k, c)})
                ELSE Cardinality({r \in 0 .. m.h - 1 : Pixel(m, r, k)})

----------------------------------------------------------------------------
(* _find_best_border_line *)

NotBound == -1

NoCall == [state |-> "idle", axis |-> 0, scan_range |-> Range(0, 0, 1),
           best_index |-> 0, max_score |-> <<>>, total_span |-> 0, i |-> 0,
           continuity_score |-> NotBound, progress |-> NotBound,
           score |-> <<>>, visited |-> <<>>]

\* the frame on entry: arguments bound, locals not yet
Enter(axis, scan_range) ==
    [NoCall EXCEPT !.state = "entry", !.axis = axis, !.scan_range = scan_range]

TotalSpanPlusOne(r) == Abs(r.stop - r.start) + 1

\* total_span = abs(scan_range.stop - scan_range.start)
TotalSpan(r) == Abs(r.stop - r.start)

\* the base of the digits of a double
Base == 2 ^ 13

\* the integer n as a double: n * 2^52
FromInt(n) == <<n, 0, 0, 0, 0>>

RECURSIVE LongDiv(_, _, _)
\* quotient and remainder of the first k digits of x by the small integer d
LongDiv(x, d, k) ==
    IF k = 0 THEN [q |-> <<>>, r |-> 0]
    ELSE LET prev == LongDiv(x, d, k - 1)
             cur == prev.r * Base + x[k]
         IN [q |-> Append(prev.q, cur \div d), r |-> cur % d]

RECURSIVE Increment(_, _)
\* x + 1, the carry running up from digit i
Increment(x, i) ==
    IF i > 1 /\ x[i] + 1 = Base
    THEN Increment([x EXCEPT ![i] = 0], i - 1)
    ELSE [x EXCEPT ![i] = x[i] + 1]

\* x / d rounded to the nearest integer, ties to even
DivRound(x, d) ==
    LET qr == LongDiv(x, d, Len(x))
        up == \/ 2 * qr.r > d
              \/ 2 * qr.r = d /\ qr.q[Len(x)] % 2 = 1
    IN IF up THEN Increment(qr.q, Len(x)) ELSE qr.q

RECURSIVE MulTail(_, _, _)
\* the digits i .. of x * c and the carry out of them
MulTail(x, c, i) ==
    IF i > Len(x) THEN [q |-> <<>>, carry |-> 0]
    ELSE LET rest == MulTail(x, c, i + 1)
             cur == x[i] * c + rest.carry
         IN IF i = 1 THEN [q |-> <<cur>> \o rest.q, carry |-> 0]
                     ELSE [q |-> <<cur % Base>> \o rest.q, carry |-> cur \div Base]

\* x * c for a small integer c
MulSmall(x, c) == MulTail(x, c, 1).q

RECURSIVE PowerOfTwoUpTo(_, _)
\* the largest k * 2^j that is at most n
PowerOfTwoUpTo(n, k) == IF 2 * k <= n THEN PowerOfTwoUpTo(n, 2 * k) ELSE k

RECURSIVE PowerOfTwoFrom(_, _, _)
\* the least k * 2^j with p * k * 2^j >= s
PowerOfTwoFrom(p, s, k) == IF p * k < s THEN PowerOfTwoFrom(p, s, 2 * k) ELSE k

\* x rounded to 53 significant bits
RoundDouble(x) ==
    LET k == PowerOfTwoUpTo(x[1], 1) IN MulSmall(DivRound(x, k), k)

\* position_weight = progress / total_span, a double in [0, 1): the quotient
\* rounded to 53 significant bits, here with its scale: m / (scale * 2^52)
PositionWeight(progress, total_span) ==
    IF progress = 0 THEN [m |-> FromInt(0), scale |-> 1]
    ELSE LET scale == PowerOfTwoFrom(progress, total_span, 1)
         IN [m |-> DivRound(FromInt(progress * scale), total_span), scale |-> scale]

\* 1 + position_weight, rounded to a double of [1, 2]
OnePlus(weight) ==
    LET n == DivRound(weight.m, weight.scale) IN [n EXCEPT ![1] = n[1] + 1]

\* score = continuity_score * (1 + position_weight)
Score(continuity_score, progress, total_span) ==
    IF continuity_score = 0 THEN FromInt(0)
    ELSE RoundDouble(MulSmall(OnePlus(PositionWeight(progress, total_span)),
                              continuity_score))

RECURSIVE Compare(_, _, _)
\* -1, 0 or 1 as the double a is below, equal to or above b, from digit i on
Compare(a, b, i) ==
    IF i > Len(a) THEN 0
    ELSE IF a[i] < b[i] THEN -1
    ELSE IF a[i] > b[i] THEN 1
    ELSE Compare(a, b, i + 1)

BetterStrict(score, max_score) == Compare(score, max_score, 1) > 0

\* if score >= max_score
Better(score, max_score) == Compare(score, max_score, 1) >= 0

TrackNext(c, score, i) ==
    [c EXCEPT !.max_score = score, !.best_index = i + c.scan_range.step]

\* max_score, best_index = score, i
Track(c, score, i) == [c EXCEPT !.max_score = score, !.best_index = i]

\* lines 55-59: initialise, return at once on a zero span
ScanEnter ==
    /\ call.state = "entry"
    /\ LET span == TotalSpan(call.scan_range)
           c0 == [call EXCEPT !.best_index = call.scan_range.start,
                              !.total_span = span,
                              !.max_score = FromInt(-1),
                              !.i = call.scan_range.start]
       IN call' = IF span = 0 THEN [c0 EXCEPT !.state = "returned"]
                              ELSE [c0 EXCEPT !.state = "loop"]
    /\ UNCHANGED <<panel_image, search_zone_ratio, padding, thin, pc, rect,
                   roi_mask, best, result, origin_ok, crops>>

\* lines 61-73: one iteration of the for loop
ScanStep ==
    /\ call.state = "loop"
    /\ InRange(call.scan_range, call.i)
    /\ IF ~IndexOK(roi_mask, call.axis, call.i)
       THEN call' = [call EXCEPT !.state = "IndexError"]
       ELSE LET cs == CountNonzero(roi_mask, call.axis, call.i)
                pr == Abs(call.i - call.scan_range.start)
                sc == Score(cs, pr, call.total_span)
                c1 == [call EXCEPT !.continuity_score = cs, !.progress = pr,
                                   !.score = sc,
                                   !.visited = Append(call.visited, call.i),
                                   !.i = call.i + call.scan_range.step]
            IN call' = IF Better(sc, call.max_score) THEN Track(c1, sc, call.i)
                                                     ELSE c1
    /\ UNCHANGED <<panel_image, search_zone_ratio, padding, thin, pc, rect,
                   roi_mask, best, result, origin_ok, crops>>

\* line 75: the range is exhausted
ScanExit ==
    /\ call.state = "loop"
    /\ ~InRange(call.scan_range, call.i)
    /\ call' = [call EXCEPT !.state = "returned"]
    /\ UNCHANGED <<panel_image, search_zone_ratio, padding, thin, pc, rect,
                   roi_mask, best, result, origin_ok, crops>>

ScanNext == ScanEnter \/ ScanStep \/ ScanExit

----------------------------------------------------------------------------
(* The scorer on its own: every small mask, either axis, every range of     *)
(* lines of the mask                                                        *)

MaskShapes == {s \in (1 .. MaxMaskCells) \X (1 .. MaxMaskCells) :
                    s[1] * s[2] <= MaxMaskCells}

PixelMasks ==
    UNION {{[kind |-> "pixels", h |-> s[1], w |-> s[2], d |-> 0, on |-> on] :
                on \in SUBSET ((0 .. s[1] - 1) \X (0 .. s[2] - 1))} :
           s \in MaskShapes}

\* masks of MaxBarLines rows of up to 3 pixels, at most two of them not empty
BarMasks ==
    {[kind |-> "bars", h |-> MaxBarLines, w |-> 3, d |-> 0,
      on |-> [r \in 1 .. MaxBarLines |->
                IF r = a THEN m ELSE IF r = b THEN n ELSE 0]] :
        a \in 1 .. MaxBarLines, b \in 1 .. MaxBarLines, m \in 0 .. 3, n \in 1 .. 3}

\* ascending range(a, b) and descending range(a, b, -1) over the lines 0 .. n-1
RangesOver(n) ==
    {r \in [start : 0 .. n, stop : 0 .. n, step : {1}] : r.start <= r.stop}
    \cup
    {r \in [start : 0 .. n - 1, stop : -1 .. n - 1, step : {-1}] : r.stop <= r.start}

NoImage == [present |-> FALSE, H |-> 0, W |-> 0, bg |-> White, ink |-> White,
            fx |-> 0, fy |-> 0, fw |-> 0, fh |-> 0, ft |-> 0]

NoRect == [x |-> 0, y |-> 0, w |-> 0, h |-> 0]

NoBest == [top |-> NotBound, bottom |-> NotBound, left |-> NotBound, right |-> NotBound]

NoResult == [kind |-> "none", h |-> 0, w |-> 0, y1 |-> 0, y2 |-> 0, x1 |-> 0, x2 |-> 0]

NoThin == [kind |-> "dummy", d |-> 0, on |-> {}]

InitScan ==
    /\ panel_image = NoImage
    /\ search_zone_ratio = DefaultRatio
    /\ padding = DefaultPadding
    /\ thin = NoThin
    /\ pc = "scorer"
    /\ rect = NoRect
    /\ best = NoBest
    /\ result = NoResult
    /\ origin_ok = FALSE
    /\ crops = 0
    /\ roi_mask \in PixelMasks \cup BarMasks
    /\ \E axis \in {0, 1} : \E r \in RangesOver(Lines(roi_mask, axis)) :
            call = Enter(axis, r)

SpecScan == InitScan /\ [][ScanNext]_vars

----------------------------------------------------------------------------
(* Panels *)

\* the frame: the pixels of the fw x fh rectangle at (fx, fy) that lie within
\* ft pixels of one of its sides
InFrame(img, r, c) ==
    /\ img.fx <= c /\ c < img.fx + img.fw
    /\ img.fy <= r /\ r < img.fy + img.fh
    /\ \/ c - img.fx < img.ft
       \/ img.fx + img.fw - 1 - c < img.ft
       \/ r - img.fy < img.ft
       \/ img.fy + img.fh - 1 - r < img.ft

\* intensity of the panel's pixel (r, c), as cv.cvtColor(.., COLOR_BGR2GRAY) gives it
Gray(img, r, c) == IF InFrame(img, r, c) THEN img.ink ELSE img.bg

PaddedH(img) == img.H + 2 * pad_size

PaddedW(img) == img.W + 2 * pad_size

\* cv.copyMakeBorder(panel_image, 15, 15, 15, 15, BORDER_CONSTANT, white), in grey
PaddedGray(img, r, c) ==
    IF /\ pad_size <= r /\ r < pad_size + img.H
       /\ pad_size <= c /\ c < pad_size + img.W
    THEN Gray(img, r - pad_size, c - pad_size)
    ELSE White

ThreshNotInverted(img, r, c) == PaddedGray(img, r, c) > BinaryThreshold

\* cv.threshold(gray, 240, 255, THRESH_BINARY_INV): on where gray is not above 240
Thresh(img, r, c) == ~(PaddedGray(img, r, c) > BinaryThreshold)

ForegroundCols(img) ==
    {c \in 0 .. PaddedW(img) - 1 : \E r \in 0 .. PaddedH(img) - 1 : Thresh(img, r, c)}

ForegroundRows(img) ==
    {r \in 0 .. PaddedH(img) - 1 : \E c \in 0 .. PaddedW(img) - 1 : Thresh(img, r, c)}

\* cv.findContours(thresh, RETR_EXTERNAL, ..) found something
HasContour(img) == ForegroundCols(img) # {}

SetMin(S) == CHOOSE m \in S : \A n \in S : m <= n

SetMax(S) == CHOOSE m \in S : \A n \in S : n <= m

\* cv.boundingRect(max(contours, key=cv.contourArea)): on the panels of this
\* model the foreground has one outer boundary, a rectangle, and its bounding
\* rectangle is the bounding box of the foreground
BoundingRect(img) ==
    LET cols == ForegroundCols(img)
        rows == ForegroundRows(img)
    IN [x |-> SetMin(cols), y |-> SetMin(rows),
        w |-> SetMax(cols) - SetMin(cols) + 1,
        h |-> SetMax(rows) - SetMin(rows) + 1]

----------------------------------------------------------------------------
(* remove_border *)

TooSmallBoth(img) ==
    ~img.present \/ (img.H < MinInputDim /\ img.W < MinInputDim)

\* panel_image is None or shape[0] < 30 or shape[1] < 30
TooSmall(img) ==
    ~img.present \/ img.H < MinInputDim \/ img.W < MinInputDim

\* int(dim * search_zone_ratio)
SearchEnd(dim, ratio) == (dim * ratio[1]) \div ratio[2]

\* range(top_search_end, -1, -1), range(left_search_end, -1, -1)
NearRange(dim, ratio) == Range(SearchEnd(dim, ratio), -1, -1)

FarRangeShort(dim, ratio) == Range(dim - SearchEnd(dim, ratio), dim - 1, 1)

FarRangeDeep(dim, ratio) == Range(dim - SearchEnd(dim, ratio) - 1, dim, 1)

\* range(bottom_search_start, h), range(right_search_start, w)
FarRange(dim, ratio) == Range(dim - SearchEnd(dim, ratio), dim, 1)

FinalLowNoPadding(origin, best_line, pad) == origin + best_line

\* final_x1 = x + best_left_x + padding, final_y1 = y + best_top_y + padding
FinalLow(origin, best_line, pad) == origin + best_line + pad

FinalHighOutward(origin, best_line, pad) == origin + best_line + pad

\* final_x2 = x + best_right_x - padding, final_y2 = y + best_bottom_y - padding
FinalHigh(origin, best_line, pad) == origin + best_line - pad

\* final_x1 >= final_x2 or final_y1 >= final_y2
Degenerate(x1, y1, x2, y2) == x1 >= x2 \/ y1 >= y2

\* one bound of a numpy slice of an axis of length n: a negative bound counts
\* from the end, and the bound is then clipped to 0 .. n
SliceBound(a, n) == Max(0, Min(n, IF a < 0 THEN a + n ELSE a))

\* len of [a:b] of an axis of length n
SliceLen(a, b, n) == Max(0, SliceBound(b, n) - SliceBound(a, n))

CropTooSmallBoth(ch, cw) == ch < MinCropDim /\ cw < MinCropDim

\* cropped.shape[0] < 10 or cropped.shape[1] < 10
CropTooSmall(ch, cw) == ch < MinCropDim \/ cw < MinCropDim

\* return panel_image
Original(img) == [kind |-> "original", h |-> img.H, w |-> img.W,
                  y1 |-> 0, y2 |-> 0, x1 |-> 0, x2 |-> 0]

\* return cropped
Cropped(img, x1, y1, x2, y2) ==
    [kind |-> "crop",
     h |-> SliceLen(y1, y2, PaddedH(img)), w |-> SliceLen(x1, x2, PaddedW(img)),
     y1 |-> y1, y2 |-> y2, x1 |-> x1, x2 |-> x2]

\* lines 84-85
RemoveBorderGuard ==
    /\ pc = "start"
    /\ IF TooSmall(panel_image)
       THEN /\ result' = Original(panel_image)
            /\ pc' = "done"
       ELSE /\ result' = result
            /\ pc' = "padded"
    /\ UNCHANGED <<panel_image, search_zone_ratio, padding, thin, rect, roi_mask,
                   best, call, origin_ok, crops>>

\* lines 87-103
ExtractContour ==
    /\ pc = "padded"
    /\ IF ~HasContour(panel_image)
       THEN /\ result' = Original(panel_image)
            /\ pc' = "done"
            /\ rect' = rect
       ELSE /\ rect' = BoundingRect(panel_image)
            /\ pc' = "contour"
            /\ result' = result
    /\ UNCHANGED <<panel_image, search_zone_ratio, padding, thin, roi_mask,
                   best, call, origin_ok, crops>>

\* lines 105-125: the skeleton's region of interest, and the call for the top
StartScans ==
    /\ pc = "contour"
    /\ roi_mask' = [kind |-> thin.kind, h |-> rect.h, w |-> rect.w,
                    d |-> thin.d, on |-> thin.on]
    /\ call' = Enter(1, NearRange(rect.h, search_zone_ratio))
    /\ pc' = "top"
    /\ UNCHANGED <<panel_image, search_zone_ratio, padding, thin, rect, best,
                   result, origin_ok, crops>>

\* line 125 returns, line 126 calls
AfterTop ==
    /\ pc = "top" /\ call.state = "returned"
    /\ best' = [best EXCEPT !.top = call.best_index]
    /\ call' = Enter(1, FarRange(rect.h, search_zone_ratio))
    /\ pc' = "bottom"
    /\ UNCHANGED <<panel_image, search_zone_ratio, padding, thin, rect, roi_mask,
                   result, origin_ok, crops>>

\* line 126 returns, line 127 calls
AfterBottom ==
    /\ pc = "bottom" /\ call.state = "returned"
    /\ best' = [best EXCEPT !.bottom = call.best_index]
    /\ call' = Enter(0, NearRange(rect.w, search_zone_ratio))
    /\ pc' = "left"
    /\ UNCHANGED <<panel_image, search_zone_ratio, padding, thin, rect, roi_mask,
                   result, origin_ok, crops>>

\* line 127 returns, line 128 calls
AfterLeft ==
    /\ pc = "left" /\ call.state = "returned"
    /\ best' = [best EXCEPT !.left = call.best_index]
    /\ call' = Enter(0, FarRange(rect.w, search_zone_ratio))
    /\ pc' = "right"
    /\ UNCHANGED <<panel_image, search_zone_ratio, padding, thin, rect, roi_mask,
                   result, origin_ok, crops>>

\* line 128 returns
AfterRight ==
    /\ pc = "right" /\ call.state = "returned"
    /\ best' = [best EXCEPT !.right = call.best_index]
    /\ call' = NoCall
    /\ pc' = "rect"
    /\ UNCHANGED <<panel_image, search_zone_ratio, padding, thin, rect, roi_mask,
                   result, origin_ok, crops>>

final_x1 == FinalLow(rect.x, best.left, padding)

final_y1 == FinalLow(rect.y, best.top, padding)

final_x2 == FinalHigh(rect.x, best.right, padding)

final_y2 == FinalHigh(rect.y, best.bottom, padding)

\* lines 130-143
Crop ==
    /\ pc = "rect"
    /\ LET cropped == Cropped(panel_image, final_x1, final_y1, final_x2, final_y2)
       IN result' = IF Degenerate(final_x1, final_y1, final_x2, final_y2)
                    THEN Original(panel_image)
                    ELSE IF CropTooSmall(cropped.h, cropped.w)
                         THEN Original(panel_image)
                         ELSE cropped
    /\ pc' = "done"
    /\ UNCHANGED <<panel_image, search_zone_ratio, padding, thin, rect, roi_mask,
                   best, call, origin_ok, crops>>

----------------------------------------------------------------------------
(* The panels, ratios, paddings and skeletons tried *)

\* background and ink: the two intensities around the threshold as ink on
\* white, and black ink on a background at the threshold
Palettes == {<<White, BinaryThreshold>>, <<White, BinaryThreshold + 1>>,
             <<BinaryThreshold, 0>>}

Dims == {MinCropDim, MinInputDim - 1} \cup (MinInputDim .. MaxDim)

\* a frame along the border of the panel, one 10 pixels inside it, a speck
FramesOf(H, W) ==
    {[fx |-> m, fy |-> m, fw |-> W - 2 * m, fh |-> H - 2 * m, ft |-> 4] :
        m \in {m \in {0, 10} : W > 2 * m /\ H > 2 * m}}
    \cup {[fx |-> 0, fy |-> 0, fw |-> 1, fh |-> 1, ft |-> 4]}

Image(H, W, p, f) ==
    [present |-> TRUE, H |-> H, W |-> W, bg |-> p[1], ink |-> p[2],
     fx |-> f.fx, fy |-> f.fy, fw |-> f.fw, fh |-> f.fh, ft |-> f.ft]

ImagesOf(H, W) == {Image(H, W, p, f) : p \in Palettes, f \in FramesOf(H, W)}

\* 29 x 40 (height x width)
Undersized == Image(29, 40, <<White, 0>>, [fx |-> 0, fy |-> 0, fw |-> 40, fh |-> 29, ft |-> 4])

\* blank all-white 100 x 100
Blank == Image(100, 100, <<White, White>>, [fx |-> 0, fy |-> 0, fw |-> 0, fh |-> 0, ft |-> 0])

\* 9 x 9, below the smallest crop
Tiny == Image(9, 9, <<White, 0>>, [fx |-> 0, fy |-> 0, fw |-> 9, fh |-> 9, ft |-> 4])

\* 200 x 200, black frame 4 pixels wide, 10 pixels from each edge, white interior
Framed == Image(200, 200, <<White, 0>>, [fx |-> 10, fy |-> 10, fw |-> 180, fh |-> 180, ft |-> 4])

Panels ==
    UNION {ImagesOf(d[1], d[2]) : d \in Dims \X Dims}
    \cup {NoImage, Tiny, Undersized, Blank, Framed}

Ratios == {<<0, 1>>, <<1, 4>>, <<1, 2>>, <<3, 4>>, <<1, 1>>}

Paddings == {0, DefaultPadding, MaxPadding}

\* the centre line of the band, as the primitive leaves it
CentreLine == [kind |-> "centre", d |-> (erosion_iterations - 1) \div 2, on |-> {}]

Thins ==
    {NoThin, CentreLine}
    \cup {[kind |-> "sparse", d |-> 0, on |-> on] :
            on \in {{}, {<<0, 0>>}, {<<1, 0>>, <<1, 1>>}}}

NoMask == [kind |-> "pixels", h |-> 0, w |-> 0, d |-> 0, on |-> {}]

ShapeOK(h, w) == h >= MinCropDim /\ w >= MinCropDim

Init ==
    /\ panel_image \in Panels
    /\ search_zone_ratio \in Ratios
    /\ padding \in Paddings
    /\ thin \in Thins
    /\ pc = "start"
    /\ rect = NoRect
    /\ roi_mask = NoMask
    /\ best = NoBest
    /\ call = NoCall
    /\ result = NoResult
    /\ origin_ok = (panel_image.present /\ ShapeOK(panel_image.H, panel_image.W))
    /\ crops = 0

\* the caller hands the returned image to remove_border again, with the same
\* arguments and the same primitive: the returned object itself, or a crop,
\* whose pixels are any panel of the crop's size
Reapply ==
    /\ pc = "done"
    /\ IF result.kind = "crop"
       THEN /\ panel_image' \in ImagesOf(result.h, result.w)
            /\ crops' = crops + 1
       ELSE /\ panel_image' = panel_image
            /\ crops' = crops
    /\ pc' = "start"
    /\ rect' = NoRect
    /\ roi_mask' = NoMask
    /\ best' = NoBest
    /\ call' = NoCall
    /\ result' = NoResult
    /\ UNCHANGED <<search_zone_ratio, padding, thin, origin_ok>>

Next ==
    \/ RemoveBorderGuard
    \/ ExtractContour
    \/ StartScans
    \/ ScanEnter
    \/ ScanStep
    \/ ScanExit
    \/ AfterTop
    \/ AfterBottom
    \/ AfterLeft
    \/ AfterRight
    \/ Crop

\* one call of remove_border
Spec == Init /\ [][Next]_vars

\* remove_border applied again and again to its own output, with the default
\* search_zone_ratio, starting from the small panels
InitChain ==
    /\ Init
    /\ search_zone_ratio = DefaultRatio
    /\ panel_image.H <= MaxDim /\ panel_image.W <= MaxDim

NextChain == Next \/ Reapply

SpecChain == InitChain /\ [][NextChain]_vars


----------------------------------------------------------------------------
(* Properties of the Line Scorer, under SpecScan *)

\* the combined score of line j in the current call, from the mask and the
\* range alone
LineScore(j) ==
    Score(CountNonzero(roi_mask, call.axis, j),
          Abs(j - call.scan_range.start),
          Abs(call.scan_range.stop - call.scan_range.start))

\* the combined score of line j is at most, or is, that of line k
ScoreAtMost(j, k) == Compare(LineScore(j), LineScore(k), 1) <= 0

SameScore(j, k) == Compare(LineScore(j), LineScore(k), 1) = 0

\* the place of candidate j in the order of visiting
VisitOrder(j) == Abs(j - call.scan_range.start)

\* C1: over a non-empty scan range, ascending or descending, of any mask and
\* either axis, the index returned is that of a candidate whose combined score
\* continuity_score * (1 + |i - start| / |stop - start|), evaluated in double
\* precision as the scorer evaluates it, is maximal over the range, and the
\* last visited of those; in an ascending range it is the largest index
\* among the candidates of maximal score.
C1_LastVisitedMaximum ==
    (call.state = "returned" /\ Candidates(call.scan_range) # {}) =>
        /\ call.best_index \in Candidates(call.scan_range)
        /\ \A j \in Candidates(call.scan_range) :
            /\ ScoreAtMost(j, call.best_index)
            /\ SameScore(j, call.best_index) =>
                    VisitOrder(j) <= VisitOrder(call.best_index)
            /\ (call.scan_range.step = 1 /\ SameScore(j, call.best_index))
                    => j <= call.best_index

\* an ascending scan has returned the larger of two lines with pixels whose
\* combined scores are equal and maximal
C1_TieReturned ==
    /\ call.state = "returned"
    /\ call.scan_range.step = 1
    /\ \E j \in Candidates(call.scan_range) :
        /\ j < call.best_index
        /\ SameScore(j, call.best_index)
        /\ CountNonzero(roi_mask, call.axis, j) > 0
        /\ CountNonzero(roi_mask, call.axis, j)
                # CountNonzero(roi_mask, call.axis, call.best_index)
        /\ \A k \in Candidates(call.scan_range) : ScoreAtMost(k, j)

\* C7: the scorer does not fail and returns a valid index: with a zero span
\* (start equals stop) it returns start and has read no line of the mask;
\* otherwise it returns one of the candidates of the range, which lies between
\* the start and the last element of the range.
C7_ValidIndex ==
    /\ call.state # "IndexError"
    /\ call.state = "returned" =>
        IF call.scan_range.start = call.scan_range.stop
        THEN /\ call.best_index = call.scan_range.start
             /\ call.visited = <<>>
             /\ call.continuity_score = NotBound
        ELSE /\ call.best_index \in Candidates(call.scan_range)
             /\ Min(call.scan_range.start, LastOf(call.scan_range)) <= call.best_index
             /\ call.best_index <= Max(call.scan_range.start, LastOf(call.scan_range))

\* a scan over several lines has returned a line other than its start
C7_ReturnedInsideRange ==
    /\ call.state = "returned"
    /\ call.scan_range.start # call.scan_range.stop
    /\ Len(call.visited) >= 2
    /\ call.best_index # call.scan_range.start
    /\ call.best_index \in Candidates(call.scan_range)

----------------------------------------------------------------------------
(* Properties of remove_border, under Spec and SpecChain *)

Scanning == pc \in {"top", "bottom", "left", "right"}

\* the length of the axis the current scan runs along
ScannedDim == IF call.axis = 1 THEN rect.h ELSE rect.w

\* no pixel of the panel has an intensity of 240 or less
NoDarkPixel(img) ==
    \A r \in 0 .. img.H - 1 : \A c \in 0 .. img.W - 1 : Gray(img, r, c) > 240

\* C2: a call with the default search_zone_ratio and any padding >= 0 returns
\* its input or the crop [y1:y2, x1:x2] of a rectangle with x1 < x2, y1 < y2
\* and both sides at least 10; so in a chain of calls on their own outputs
\* that starts from an image of at least 10 x 10, every input and every
\* result is at least 10 x 10.
C2_CropAtLeastTen ==
    /\ pc = "done" =>
        \/ result.kind = "original" /\ result.h = panel_image.H
                                    /\ result.w = panel_image.W
        \/ /\ result.kind = "crop"
           /\ result.x1 < result.x2 /\ result.y1 < result.y2
           /\ result.h = result.y2 - result.y1
           /\ result.w = result.x2 - result.x1
           /\ result.h >= 10 /\ result.w >= 10
    /\ origin_ok =>
        /\ panel_image.H >= 10 /\ panel_image.W >= 10
        /\ pc = "done" => (result.h >= 10 /\ result.w >= 10)

\* the crop of a crop: a second application has cut its input again
C2_CroppedTwice ==
    /\ pc = "done" /\ result.kind = "crop" /\ crops >= 1 /\ origin_ok
    /\ result.h < panel_image.H

\* C3: when the input is absent, or its height or width is below 30, or no
\* pixel of it has intensity <= 240, the call goes no further than the
\* contour extraction and returns the input itself.
C3_PassThrough ==
    ( \/ ~panel_image.present
      \/ panel_image.H < 30
      \/ panel_image.W < 30
      \/ NoDarkPixel(panel_image) ) =>
        /\ pc \in {"start", "padded", "done"}
        /\ call.state = "idle"
        /\ pc = "done" => /\ result.kind = "original"
                          /\ result.h = panel_image.H
                          /\ result.w = panel_image.W

\* the blank all-white 100 x 100 panel was returned after the contour search
C3_BlankReturned ==
    /\ pc = "done" /\ panel_image = Blank /\ result.kind = "original"
    /\ panel_image.H = 100 /\ panel_image.W = 100 /\ NoDarkPixel(panel_image)

\* C4: the returned image is never higher or wider than the input, for every
\* padding >= 0, although the crop is cut from the padded image.
C4_NeverLarger ==
    (pc = "done" /\ panel_image.present) =>
        /\ result.h <= panel_image.H
        /\ result.w <= panel_image.W

\* a crop was returned with the default arguments from a frame that reaches
\* the border of the panel
C4_CropOfFullFrame ==
    /\ pc = "done" /\ result.kind = "crop"
    /\ search_zone_ratio = DefaultRatio /\ padding = DefaultPadding
    /\ rect.w = panel_image.W /\ rect.h = panel_image.H
    /\ PaddedW(panel_image) > panel_image.W
    /\ result.w < panel_image.W /\ result.h < panel_image.H

\* C5: for an image of at least 30 x 30, a ratio in [0, 1] and a padding >= 0
\* no call fails: every line index the scans read lies inside the region of
\* interest, 0 .. h-1 for rows and 0 .. w-1 for columns.
C5_NeverRaises ==
    ( /\ panel_image.present
      /\ panel_image.H >= 30 /\ panel_image.W >= 30
      /\ search_zone_ratio[1] <= search_zone_ratio[2]
      /\ padding >= 0 ) =>
        /\ call.state # "IndexError"
        /\ (Scanning /\ call.state = "loop" /\ InRange(call.scan_range, call.i))
                => (0 <= call.i /\ call.i < ScannedDim)

\* C6, as the specification states it: over the candidates of each scan of
\* remove_border the weight progress / total_span starts at 0, never
\* decreases and is 1 at the last candidate visited.
C6_WeightZeroToOne ==
    (Scanning /\ call.visited # <<>>) =>
        /\ Len(call.visited) = 1 => call.progress = 0
        /\ call.progress >= 0
        /\ call.state = "returned" => call.progress = call.total_span

\* C6, amended: the k-th candidate visited has progress k - 1 and total_span
\* is the number of candidates of the range, so the weight rises strictly
\* from 0 at the first candidate to (n - 1) / n, below 1, at the last of n.
C6_WeightBelowOne ==
    (Scanning /\ call.state \in {"loop", "returned"}) =>
        /\ call.total_span = RangeLen(call.scan_range)
        /\ call.visited # <<>> =>
            /\ call.progress = Len(call.visited) - 1
            /\ call.progress < call.total_span
        /\ (call.state = "returned" /\ call.visited # <<>>) =>
            /\ Len(call.visited) = call.total_span
            /\ call.progress = call.total_span - 1

\* the scan for the bottom has returned after several candidates
C6_BottomScanReturned ==
    /\ pc = "bottom" /\ call.state = "returned"
    /\ Len(call.visited) >= 2
    /\ call.progress = call.total_span - 1

\* floor(dim * search_zone_ratio)
ZoneDepth(dim) == (dim * search_zone_ratio[1]) \div search_zone_ratio[2]

\* C9, as stated: for a ratio below 1 the four lines are rows and columns of
\* the region of interest inside the search zones.
C9_LinesInsideZone ==
    (pc = "rect" /\ search_zone_ratio[1] < search_zone_ratio[2]) =>
        /\ 0 <= best.top /\ best.top <= ZoneDepth(rect.h)
        /\ rect.h - ZoneDepth(rect.h) <= best.bottom /\ best.bottom < rect.h
        /\ 0 <= best.left /\ best.left <= ZoneDepth(rect.w)
        /\ rect.w - ZoneDepth(rect.w) <= best.right /\ best.right < rect.w

\* C9, amended: the top and left lines lie in 0 .. floor(dim * r); the bottom
\* and right lines lie in dim - floor(dim * r) .. dim - 1, except that they
\* are dim itself, one past the last line, exactly when floor(dim * r) = 0;
\* no side is trimmed by more than floor(dim * r) + padding.
C9_LinesInsideZoneOrPastEnd ==
    (pc = "rect" /\ search_zone_ratio[1] < search_zone_ratio[2]) =>
        /\ 0 <= best.top /\ best.top <= ZoneDepth(rect.h)
        /\ rect.h - ZoneDepth(rect.h) <= best.bottom /\ best.bottom <= rect.h
        /\ best.bottom = rect.h <=> ZoneDepth(rect.h) = 0
        /\ 0 <= best.left /\ best.left <= ZoneDepth(rect.w)
        /\ rect.w - ZoneDepth(rect.w) <= best.right /\ best.right <= rect.w
        /\ best.right = rect.w <=> ZoneDepth(rect.w) = 0
        /\ final_y1 - rect.y <= ZoneDepth(rect.h) + padding
        /\ final_x1 - rect.x <= ZoneDepth(rect.w) + padding
        /\ (rect.y + rect.h) - final_y2 <= ZoneDepth(rect.h) + padding
        /\ (rect.x + rect.w) - final_x2 <= ZoneDepth(rect.w) + padding

\* with a ratio of 0 on a large rectangle the bottom and right lines are h and w
C9_PastEndReached ==
    /\ pc = "rect" /\ search_zone_ratio = <<0, 1>>
    /\ rect.h >= 30 /\ rect.w >= 30
    /\ best.bottom = rect.h /\ best.right = rect.w
    /\ best.top = 0 /\ best.left = 0

\* the end-to-end panel, arguments and skeleton
EndToEnd ==
    /\ panel_image = Framed
    /\ search_zone_ratio = <<1, 4>>
    /\ padding = 5
    /\ thin = [kind |-> "centre", d |-> 2, on |-> {}]

\* the pixels of the returned crop that lie within 2 pixels of one of its edges
NearCropEdge ==
    {p \in (result.y1 .. result.y2 - 1) \X (result.x1 .. result.x2 - 1) :
        \/ p[1] - result.y1 < 2 \/ result.y2 - 1 - p[1] < 2
        \/ p[2] - result.x1 < 2 \/ result.x2 - 1 - p[2] < 2}

NoFrameNearCropEdge ==
    \A p \in NearCropEdge : PaddedGray(panel_image, p[1], p[2]) # panel_image.ink

\* C8, as stated: the end-to-end call returns a crop whose width and height
\* are each between 20 and 30 pixels smaller than the input, with no frame
\* pixel within 2 pixels of an edge of the output.
C8_TwentyToThirtySmaller ==
    (pc = "done" /\ EndToEnd) =>
        /\ result.kind = "crop"
        /\ 20 <= panel_image.W - result.w /\ panel_image.W - result.w <= 30
        /\ 20 <= panel_image.H - result.h /\ panel_image.H - result.h <= 30
        /\ NoFrameNearCropEdge

\* C8, amended: the end-to-end call returns the crop [32:197, 32:197] of the
\* padded image, 165 x 165, 35 pixels smaller than the input each way, with
\* no frame pixel within 2 pixels of an edge of the output.
C8_ThirtyFiveSmaller ==
    (pc = "done" /\ EndToEnd) =>
        /\ result.kind = "crop"
        /\ result.y1 = 32 /\ result.y2 = 197 /\ result.x1 = 32 /\ result.x2 = 197
        /\ panel_image.W - result.w = 35
        /\ panel_image.H - result.h = 35
        /\ NoFrameNearCropEdge

\* the end-to-end call has returned a crop
C8_EndToEndCropped ==
    /\ pc = "done" /\ EndToEnd /\ result.kind = "crop"
    /\ best.top = 2 /\ best.bottom = 177

\* every line of the range of the current call is empty
AllLinesEmpty(r, axis) ==
    \A j \in Candidates(r) : CountNonzero(roi_mask, axis, j) = 0

\* the four ranges are non-empty and none of their lines has a pixel
EmptyZones ==
    /\ ZoneDepth(rect.h) >= 1 /\ ZoneDepth(rect.w) >= 1
    /\ \A j \in (0 .. ZoneDepth(rect.h)) \cup (rect.h - ZoneDepth(rect.h) .. rect.h - 1) :
            CountNonzero(roi_mask, 1, j) = 0
    /\ \A j \in (0 .. ZoneDepth(rect.w)) \cup (rect.w - ZoneDepth(rect.w) .. rect.w - 1) :
            CountNonzero(roi_mask, 0, j) = 0

\* C10: a scan of a non-empty range none of whose lines has a pixel returns
\* the last, outermost candidate: 0 for top and left, dim - 1 for bottom and
\* right; so with four such zones the rectangle is x + padding, y + padding,
\* x + w - 1 - padding, y + h - 1 - padding, and a call that returns a crop
\* returns that one.
C10_EmptyZonesTrimmed ==
    /\ ( /\ Scanning /\ call.state = "returned" /\ call.visited # <<>>
         /\ AllLinesEmpty(call.scan_range, call.axis) ) =>
            /\ call.best_index = LastOf(call.scan_range)
            /\ pc \in {"top", "left"} => call.best_index = 0
            /\ pc \in {"bottom", "right"} => call.best_index = ScannedDim - 1
    /\ (pc \in {"rect", "done"} /\ best.right # NotBound /\ EmptyZones) =>
            /\ final_x1 = rect.x + padding
            /\ final_y1 = rect.y + padding
            /\ final_x2 = rect.x + rect.w - 1 - padding
            /\ final_y2 = rect.y + rect.h - 1 - padding
            /\ (pc = "done" /\ result.kind = "crop") =>
                    /\ result.x1 = rect.x + padding
                    /\ result.y1 = rect.y + padding
                    /\ result.x2 = rect.x + rect.w - 1 - padding
                    /\ result.y2 = rect.y + rect.h - 1 - padding

\* a crop was returned although no zone held a skeleton pixel
C10_CropWithEmptyZones ==
    /\ pc = "done" /\ result.kind = "crop" /\ EmptyZones
    /\ best.top = 0 /\ best.left = 0
    /\ best.bottom = rect.h - 1 /\ best.right = rect.w - 1
    /\ result.h = rect.h - 1 - 2 * padding

=============================================================================
